---- MODULE Spec2Model ----
(***************************************************************************)
(* A model of trainmovements/listen.py: the field decoders, the            *)
(* TrainMovementsMessage record with its lazily decoded properties, and    *)
(* the TrainMovementsListener that handles a batch of envelopes.           *)
(*                                                                         *)
(* Wire values are JSON strings.  The fields the code passes to int()      *)
(* (toc_id, division_code and the three timestamps) are sequences of       *)
(* one-character strings, so that int() is computed digit by digit; every  *)
(* other field is a plain string.  A raw body is a function from keys to   *)
(* wire values; a key the body lacks is simply not in its domain.          *)
(*                                                                         *)
(* A Python value is a record tagged with its type; the outcome of a call  *)
(* is Return(value) or Raise(exception class).                             *)
(***************************************************************************)
EXTENDS Integers, Sequences, FiniteSets, TLC

VARIABLES pc, messages, i, stdout, log, exc, rec, op, arg, res, companies

vars == <<pc, messages, i, stdout, log, exc, rec, op, arg, res, companies>>

listenerVars == <<pc, messages, i, stdout, log, exc>>

recordVars == <<rec, op, arg, res>>

-----------------------------------------------------------------------------
(* Bounds of the model and constants of the program.                       *)

\* The longest batch json.loads hands to the loop of on_message.
MaxBatch == 3

\* The longest string handed to _decode_operating_company on its own.
MaxLen == 2

\* int(string) / 1000: the divisor of _decode_timestamp.
MsPerSecond == 1000

\* total_seconds() / 60: the divisor of early_late_description.
SecondsPerMinute == 60

-----------------------------------------------------------------------------
(* Python values and call outcomes.                                        *)

PyNone == [type |-> "NoneType"]

PyBool(b) == [type |-> "bool", val |-> b]

PyStr(s) == [type |-> "str", val |-> s]

\* A float that is the quotient num / den, kept exact.
PyFloat(num, den) == [type |-> "float", num |-> num, den |-> den]

\* A naive local datetime, as the milliseconds since the epoch it was built
\* from (the samples are small: no year out of range, no change of the local
\* offset between two of them).
PyDatetime(ms) == [type |-> "datetime", ms |-> ms]

PyEnum(cls, name) == [type |-> cls, name |-> name]

Return(v) == [exc |-> "none", val |-> v]

Raise(e) == [exc |-> e]

\* JSON null on the wire (train_file_address may be null).
JsonNull == "<null>"

\* raw[key] of a dict: KeyError when the key is missing.
GetItem(raw, key) == IF key \in DOMAIN raw THEN Return(raw[key]) ELSE Raise("KeyError")

-----------------------------------------------------------------------------
(* int() of a string of the model's alphabet.                              *)

Digits == <<"0", "1", "2", "3", "4", "5", "6", "7", "8", "9">>

IsDigit(c) == \E d \in DOMAIN Digits : Digits[d] = c

DigitValue(c) == (CHOOSE d \in DOMAIN Digits : Digits[d] = c) - 1

RECURSIVE DigitsValue(_)
DigitsValue(s) == IF s = <<>> THEN 0 ELSE 10 * DigitsValue(SubSeq(s, 1, Len(s) - 1)) + DigitValue(s[Len(s)])

\* int(string): the value of a non-empty string of decimal digits, ValueError otherwise
\* (the model's strings carry no sign, blank or underscore).
int(s) == IF s # <<>> /\ \A k \in DOMAIN s : IsDigit(s[k]) THEN Return(DigitsValue(s)) ELSE Raise("ValueError")

-----------------------------------------------------------------------------
(* The two lookup modules the listener imports.                            *)

\* The tables the company lookup may hold (the numeric codes it knows).
CompanyTables == {{20, 88}, {0, 20, 88}}

\* operating_companies.from_numeric_code(int) -> Company | None
operating_companies_from_numeric_code(n) == IF n \in companies THEN [type |-> "Company", code |-> n] ELSE PyNone

\* locations.from_stanox(str) -> Location | None
locations_from_stanox(stanox) == IF stanox \in {"87701", "72410"} THEN [type |-> "Location", stanox |-> stanox] ELSE PyNone

-----------------------------------------------------------------------------
(* The enums.                                                              *)

VariationStatus_get(string) ==
  CASE string = "ON TIME" -> Return(PyEnum("VariationStatus", "on_time"))
    [] string = "EARLY" -> Return(PyEnum("VariationStatus", "early"))
    [] string = "LATE" -> Return(PyEnum("VariationStatus", "late"))
    [] string = "OFF ROUTE" -> Return(PyEnum("VariationStatus", "off_route"))
    [] OTHER -> Raise("KeyError")

EventType_get(string) ==
  CASE string = "ARRIVAL" -> Return(PyEnum("EventType", "arrival"))
    [] string = "DEPARTURE" -> Return(PyEnum("EventType", "departure"))
    [] string = "DESTINATION" -> Return(PyEnum("EventType", "destination"))
    [] OTHER -> Raise("KeyError")

-----------------------------------------------------------------------------
(* The field decoders (static methods of TrainMovementsMessage).           *)

_decode_boolean(string) ==
  CASE string = "true" -> Return(PyBool(TRUE))
    [] string = "false" -> Return(PyBool(FALSE))
    [] OTHER -> Raise("ValueError")

_decode_stanox(stanox) == Return(locations_from_stanox(stanox))

\* operating_companies.from_numeric_code(int(numeric_code)), n the outcome of int().
from_numeric_code_of(n) == IF n.exc # "none" THEN n ELSE Return(operating_companies_from_numeric_code(n.val))

\* Faulty variant: "00" goes to the lookup like any other code.
_decode_operating_company_no_sentinel(numeric_code) == from_numeric_code_of(int(numeric_code))

_decode_operating_company(numeric_code) ==
  IF numeric_code = <<"0", "0">> THEN Return(PyNone) ELSE from_numeric_code_of(int(numeric_code))

\* datetime.fromtimestamp(int(string) / 1000) inside try/except ValueError, n the
\* outcome of int(); the datetime keeps the milliseconds.
fromtimestamp_of(n) == IF n.exc # "none" THEN Raise("ValueError") ELSE Return(PyDatetime(n.val))

_decode_timestamp(string) ==
  IF string = <<>> THEN Return(PyNone) ELSE fromtimestamp_of(int(string))

-----------------------------------------------------------------------------
(* TrainMovementsMessage: self is [raw |-> body].  Each property decodes   *)
(* its field when it is read.                                              *)

\* f(v) where v is the outcome of evaluating the argument: an exception
\* raised by the argument is raised by the call.
Call(f, v) ==
  IF v.exc # "none" THEN v
  ELSE CASE f = "EventType.get" -> EventType_get(v.val)
         [] f = "VariationStatus.get" -> VariationStatus_get(v.val)
         [] f = "_decode_timestamp" -> _decode_timestamp(v.val)
         [] f = "_decode_stanox" -> _decode_stanox(v.val)
         [] f = "_decode_boolean" -> _decode_boolean(v.val)
         [] f = "_decode_operating_company" -> _decode_operating_company(v.val)
         [] f = "return" -> Return(PyStr(v.val))

\* An expression statement at the end of a function body: the value of the
\* expression is dropped and the function returns None.
ExpressionStatement(v) == IF v.exc # "none" THEN v ELSE Return(PyNone)

planned_event_type(self) == Call("EventType.get", GetItem(self.raw, "planned_event_type"))

\* The property's body has no `return`.
event_type(self) == ExpressionStatement(Call("EventType.get", GetItem(self.raw, "event_type")))

status(self) == Call("VariationStatus.get", GetItem(self.raw, "variation_status"))

planned_datetime(self) == Call("_decode_timestamp", GetItem(self.raw, "planned_timestamp"))

actual_datetime(self) == Call("_decode_timestamp", GetItem(self.raw, "actual_timestamp"))

planned_timetable_datetime(self) == Call("_decode_timestamp", GetItem(self.raw, "gbtt_timestamp"))

location(self) == Call("_decode_stanox", GetItem(self.raw, "loc_stanox"))

location_stanox(self) == Call("return", GetItem(self.raw, "loc_stanox"))

is_correction(self) == Call("_decode_boolean", GetItem(self.raw, "correction_ind"))

train_terminated(self) == Call("_decode_boolean", GetItem(self.raw, "train_terminated"))

operating_company(self) == Call("_decode_operating_company", GetItem(self.raw, "toc_id"))

division_code(self) == Call("_decode_operating_company", GetItem(self.raw, "division_code"))

train_service_code(self) == Call("return", GetItem(self.raw, "train_service_code"))

train_id(self) == Call("return", GetItem(self.raw, "train_id"))

is_off_route(self) == Call("_decode_boolean", GetItem(self.raw, "offroute_ind"))

current_train_id(self) == Call("return", GetItem(self.raw, "current_train_id"))

original_location(self) == Call("_decode_stanox", GetItem(self.raw, "original_loc_stanox"))

original_location_planned_departure_datetime(self) == Call("_decode_timestamp", GetItem(self.raw, "original_loc_timestamp"))

SupportedFields == {"planned_event_type", "event_type", "status", "planned_datetime", "actual_datetime", "planned_timetable_datetime", "location", "location_stanox", "is_correction", "train_terminated", "operating_company", "division_code", "train_service_code", "train_id", "is_off_route", "current_train_id", "original_location", "original_location_planned_departure_datetime", "early_late_description"}

\* The twelve properties whose body is `raise NotImplementedError()`.
UnsupportedFields == {"direction", "auto_expected", "event_source", "reporting_location", "platform", "timetable_variation", "delay_monitoring_point", "line_ind", "next_report_location", "next_report_run_time", "route", "train_file_address"}

\* Faulty variant: an unsupported property hands back the raw value under its name.
unsupported_property_reads_raw(self, name) == IF name \in DOMAIN self.raw THEN Return(PyStr(self.raw[name])) ELSE Return(PyNone)

unsupported_property(self, name) == Raise("NotImplementedError")

\* Faulty variant: the subtraction is the wrong way round.
mins_late_swapped(actual, planned) == PyFloat(planned.ms - actual.ms, MsPerSecond * SecondsPerMinute)

\* (actual - planned).total_seconds() / 60
mins_late(actual, planned) == PyFloat(actual.ms - planned.ms, MsPerSecond * SecondsPerMinute)

\* -x of a float
Negated(x) == [x EXCEPT !.num = 0 - @]

\* '<template>'.format(x)
str_format(template, x) == [type |-> "str", template |-> template, arg |-> x]

\* The body of early_late_description over the outcomes a, p, s of reading
\* actual_datetime, planned_datetime and status: `not a or not p` reads the
\* actual timestamp first and the planned one only when the actual one is
\* truthy; the status is read after both.
early_late_of(a, p, s) ==
  IF a.exc # "none" THEN a
  ELSE IF a.val = PyNone THEN Return(PyStr("[unknown]"))
  ELSE IF p.exc # "none" THEN p
  ELSE IF p.val = PyNone THEN Return(PyStr("[unknown]"))
  ELSE IF s.exc # "none" THEN s
  ELSE CASE s.val.name = "late" -> Return(str_format("{} mins late", mins_late(a.val, p.val)))
         [] s.val.name = "early" -> Return(str_format("{} mins early", Negated(mins_late(a.val, p.val))))
         [] s.val.name = "on_time" -> Return(PyStr("on time"))
         [] OTHER -> Return(PyNone)

early_late_description(self) == early_late_of(actual_datetime(self), planned_datetime(self), status(self))

\* getattr(self, name) over the properties of the class.
getattr(self, name) ==
  CASE name = "planned_event_type" -> planned_event_type(self)
    [] name = "event_type" -> event_type(self)
    [] name = "status" -> status(self)
    [] name = "planned_datetime" -> planned_datetime(self)
    [] name = "actual_datetime" -> actual_datetime(self)
    [] name = "planned_timetable_datetime" -> planned_timetable_datetime(self)
    [] name = "location" -> location(self)
    [] name = "location_stanox" -> location_stanox(self)
    [] name = "is_correction" -> is_correction(self)
    [] name = "train_terminated" -> train_terminated(self)
    [] name = "operating_company" -> operating_company(self)
    [] name = "division_code" -> division_code(self)
    [] name = "train_service_code" -> train_service_code(self)
    [] name = "train_id" -> train_id(self)
    [] name = "is_off_route" -> is_off_route(self)
    [] name = "current_train_id" -> current_train_id(self)
    [] name = "original_location" -> original_location(self)
    [] name = "original_location_planned_departure_datetime" -> original_location_planned_departure_datetime(self)
    [] name = "early_late_description" -> early_late_description(self)
    [] name \in UnsupportedFields -> unsupported_property(self, name)
    [] OTHER -> Raise("AttributeError")

\* Faulty variant: the list opens with event_type.
field_names_event_type_first == <<"event_type", "status", "planned_datetime", "actual_datetime", "planned_timetable_datetime", "early_late_description", "location", "location_stanox", "operating_company", "is_correction">>

field_names == <<"planned_event_type", "status", "planned_datetime", "actual_datetime", "planned_timetable_datetime", "early_late_description", "location", "location_stanox", "operating_company", "is_correction">>

\* One more (key, value) in front of the rest of a list being built: the
\* first exception ends the building.
Cons(key, v, rest) ==
  IF v.exc # "none" THEN v
  ELSE IF rest.exc # "none" THEN rest
  ELSE Return(<<<<key, v.val>>>> \o rest.val)

\* [(name, getattr(self, name)) for name in names]
RECURSIVE Items(_, _)
Items(self, names) ==
  IF names = <<>> THEN Return(<<>>)
  ELSE Cons(Head(names), getattr(self, Head(names)), Items(self, Tail(names)))

\* OrderedDict(items)
OrderedDict(items) == IF items.exc # "none" THEN items ELSE Return([type |-> "OrderedDict", items |-> items.val])

serialize(self) == OrderedDict(Items(self, field_names))

\* Faulty variant: the assertion never fails (as when assertions are compiled out).
assert_skipped(d, o) ==
  IF d.exc # "none" THEN d
  ELSE IF o.exc # "none" THEN o
  ELSE Return(PyNone)

\* assert d == o, over the outcomes of reading division_code and operating_company.
assert_equal(d, o) ==
  IF d.exc # "none" THEN d
  ELSE IF o.exc # "none" THEN o
  ELSE IF d.val = o.val THEN Return(PyNone) ELSE Raise("AssertionError")

_validate_assumptions(self) == assert_equal(division_code(self), operating_company(self))

\* The object once __init__ has run: none when it raised.
Constructed(self, v) == IF v.exc # "none" THEN v ELSE Return(self)

\* TrainMovementsMessage(raw)
__init__(raw) == Constructed([raw |-> raw], _validate_assumptions([raw |-> raw]))

-----------------------------------------------------------------------------
(* json.dumps(self.serialize(), indent=4, default=JsonSerializer)          *)

\* Company and Location come from the lookup modules; they render through
\* the hasattr(obj, 'serialize') branch.
obj_serialize(obj) == [type |-> "dict", of |-> obj]

JsonSerializer(obj) ==
  CASE obj.type = "datetime" -> Return([type |-> "str", isoformat |-> obj.ms])
    [] obj.type \in {"EventType", "VariationStatus"} -> Return(PyStr(obj.name))
    [] obj.type \in {"Company", "Location"} -> Return(obj_serialize(obj))
    [] OTHER -> Raise("TypeError")

\* The encoder renders None, bool, str and dict itself and asks default for the rest.
JsonValue(v) == IF v.type \in {"NoneType", "bool", "str", "dict"} THEN Return(v) ELSE JsonSerializer(v)

RECURSIVE JsonItems(_)
JsonItems(items) ==
  IF items = <<>> THEN Return(<<>>)
  ELSE Cons(Head(items)[1], JsonValue(Head(items)[2]), JsonItems(Tail(items)))

\* The text json.dumps returns, kept as the list of its (key, rendered value).
JsonText(items) == IF items.exc # "none" THEN items ELSE Return([type |-> "str", json |-> items.val])

json_dumps(odict) == JsonText(JsonItems(odict.items))

\* json.dumps(d) where d is the outcome of self.serialize().
json_dumps_of(d) == IF d.exc # "none" THEN d ELSE json_dumps(d.val)

__str__(self) == json_dumps_of(serialize(self))

-----------------------------------------------------------------------------
(* TrainMovementsListener.                                                 *)

\* logging.basicConfig(level=logging.INFO) in main(): LOG drops what is below INFO.
LOG_LEVEL == "INFO"

Severity(level) == CASE level = "DEBUG" -> 1 [] level = "INFO" -> 2 [] level = "ERROR" -> 4

\* LOG.<level>(...) called at `site`, appended to the emitted log lg.
LogCall(lg, level, site) == IF Severity(level) >= Severity(LOG_LEVEL) THEN Append(lg, [level |-> level, site |-> site]) ELSE lg

\* Faulty variant: the rejection is logged at debug severity.
msg_type_verdict_debug(t, lg) ==
  IF t.exc # "none" THEN [exc |-> t.exc, log |-> lg]
  ELSE IF t.val # "0003" THEN [exc |-> "none", val |-> FALSE, log |-> LogCall(lg, "DEBUG", "_validate_header")]
  ELSE [exc |-> "none", val |-> TRUE, log |-> lg]

\* The body of _validate_header over the outcome t of header['msg_type'].
msg_type_verdict(t, lg) ==
  IF t.exc # "none" THEN [exc |-> t.exc, log |-> lg]
  ELSE IF t.val # "0003" THEN [exc |-> "none", val |-> FALSE, log |-> LogCall(lg, "ERROR", "_validate_header")]
  ELSE [exc |-> "none", val |-> TRUE, log |-> lg]

\* Faulty variant: the validator accepts every message type.
_validate_header_accepts_all(header, lg) == [exc |-> "none", val |-> TRUE, log |-> lg]

\* Returns the verdict and the log; KeyError when the header has no msg_type.
_validate_header(header, lg) == msg_type_verdict(GetItem(header, "msg_type"), lg)

\* print(decoded), text the outcome of str(decoded).
print_decoded(text, lg, out) ==
  IF text.exc # "none" THEN [exc |-> text.exc, log |-> lg, stdout |-> out]
  ELSE [exc |-> "none", log |-> lg, stdout |-> Append(out, text.val)]

\* decoded = TrainMovementsMessage(body); print(decoded); return
handle_decoded(decoded, lg, out) ==
  IF decoded.exc # "none" THEN [exc |-> decoded.exc, log |-> lg, stdout |-> out]
  ELSE print_decoded(__str__(decoded.val), lg, out)

\* raw_message['body'] handed to the constructor.
handle_body(body, lg, out) ==
  IF body.exc # "none" THEN [exc |-> body.exc, log |-> lg, stdout |-> out]
  ELSE handle_decoded(__init__(body.val), lg, out)

\* if not self._validate_header(header): LOG.debug(...); return
handle_verdict(raw_message, valid, out) ==
  IF valid.exc # "none" THEN [exc |-> valid.exc, log |-> valid.log, stdout |-> out]
  ELSE IF ~valid.val THEN [exc |-> "none", log |-> LogCall(valid.log, "DEBUG", "_handle_message"), stdout |-> out]
  ELSE handle_body(GetItem(raw_message, "body"), valid.log, out)

\* header = raw_message['header']
handle_header(raw_message, header, lg, out) ==
  IF header.exc # "none" THEN [exc |-> header.exc, log |-> lg, stdout |-> out]
  ELSE handle_verdict(raw_message, _validate_header(header.val, lg), out)

\* One envelope: what it raises, and the log and the standard output after it.
_handle_message(raw_message, lg, out) == handle_header(raw_message, GetItem(raw_message, "header"), lg, out)

-----------------------------------------------------------------------------
(* The bodies and envelopes the model feeds to the code.                   *)

BaseBody == [planned_event_type |-> "DEPARTURE", event_type |-> "DEPARTURE", variation_status |-> "LATE", planned_timestamp |-> <<"6", "0", "0", "0", "0">>, actual_timestamp |-> <<"3", "6", "0", "0", "0", "0">>, gbtt_timestamp |-> <<"0">>, loc_stanox |-> "87701", correction_ind |-> "false", train_terminated |-> "false", offroute_ind |-> "false", toc_id |-> <<"8", "8">>, division_code |-> <<"8", "8">>, train_service_code |-> "24745000", train_id |-> "892A39MI19", current_train_id |-> "", original_loc_stanox |-> "", original_loc_timestamp |-> <<>>, direction_ind |-> "UP", auto_expected |-> "true", event_source |-> "AUTOMATIC", reporting_stanox |-> "87701", platform |-> " 1", timetable_variation |-> "2", delay_monitoring_point |-> "true", line_ind |-> "F", next_report_stanox |-> "87700", next_report_run_time |-> "1", route |-> "2", train_file_address |-> JsonNull]

With(body, key, value) == [body EXCEPT ![key] = value]

Without(body, key) == [k \in DOMAIN body \ {key} |-> body[k]]

MismatchBody == With(BaseBody, "division_code", <<"2", "0">>)

ListenerBodies == {BaseBody, MismatchBody, With(BaseBody, "variation_status", "OFF ROUTE"), With(BaseBody, "correction_ind", "maybe"), With(BaseBody, "variation_status", "DELAYED"), With(With(BaseBody, "toc_id", <<"0", "0">>), "division_code", <<"0", "0">>), With(BaseBody, "planned_timestamp", <<"a", "b", "c">>)}

Envelope(msg_type, body) == [header |-> [msg_type |-> msg_type, source_system_id |-> "TRUST", original_data_source |-> "SMART"], body |-> body]

Envelopes == {Envelope("0003", b) : b \in ListenerBodies} \cup {Envelope("0001", BaseBody), Envelope("0002", MismatchBody)}

CodeSamples == {<<"0", "0">>, <<"0">>, <<"8", "8">>, <<"0", "8", "8">>, <<"2", "0">>, <<"9", "9">>, <<"x", "x">>, <<>>}

TimestampSamples == {<<>>, <<"0">>, <<"6", "0", "0", "0", "0">>, <<"3", "6", "0", "0", "0", "0">>, <<"a", "b", "c">>}

StatusSamples == {"ON TIME", "EARLY", "LATE", "OFF ROUTE", "DELAYED"}

EventTypeSamples == {"ARRIVAL", "DEPARTURE", "DESTINATION", "arrival", "TERMINATED"}

RecordBodies ==
  {With(With(BaseBody, "toc_id", t), "division_code", d) : t \in CodeSamples, d \in CodeSamples}
  \cup {With(With(With(BaseBody, "variation_status", s), "planned_timestamp", p), "actual_timestamp", a) : s \in StatusSamples, p \in TimestampSamples, a \in TimestampSamples}
  \cup {With(With(Without(BaseBody, "variation_status"), "planned_timestamp", p), "actual_timestamp", a) : p \in TimestampSamples, a \in TimestampSamples}
  \cup {With(With(BaseBody, "event_type", e), "planned_event_type", q) : e \in EventTypeSamples, q \in EventTypeSamples}
  \cup {With(With(BaseBody, "platform", v), "train_file_address", w) : v \in {" 1", "", JsonNull}, w \in {"X", "", JsonNull}}
  \cup {Without(BaseBody, k) : k \in {"platform", "train_file_address", "event_type", "planned_event_type", "toc_id", "division_code", "correction_ind"}}
  \cup {With(BaseBody, "correction_ind", "maybe"), With(BaseBody, "loc_stanox", "00000")}

Alphabet == {"0", "2", "8", "x"}

Strings(n) == UNION {[1..k -> Alphabet] : k \in 0..n}

-----------------------------------------------------------------------------
(* The listener: one delivery of a batch.                                  *)

Init ==
  /\ pc = "idle" /\ messages = <<>> /\ i = 0 /\ stdout = <<>> /\ log = <<>> /\ exc = "none"
  /\ rec = PyNone /\ op = "none" /\ arg = PyNone /\ res = Return(PyNone)
  /\ companies \in CompanyTables

\* on_message up to the loop: LOG.debug, json.loads.
on_message ==
  /\ pc = "idle"
  /\ \E n \in 0..MaxBatch : \E batch \in [1..n -> Envelopes] : messages' = batch
  /\ log' = LogCall(log, "DEBUG", "on_message")
  /\ i' = 1
  /\ pc' = "loop"
  /\ UNCHANGED <<stdout, exc, recordVars, companies>>

\* The loop of on_message after the call r of _handle_message.
Handled(r) ==
  /\ log' = r.log
  /\ stdout' = r.stdout
  /\ exc' = r.exc
  /\ IF r.exc = "none" THEN i' = i + 1 /\ pc' = "loop" ELSE i' = i /\ pc' = "raised"

\* One turn of the loop: self._handle_message(message); what it raises leaves on_message.
handle_message ==
  /\ pc = "loop"
  /\ i <= Len(messages)
  /\ Handled(_handle_message(messages[i], log, stdout))
  /\ UNCHANGED <<messages, recordVars, companies>>

\* The loop is exhausted: on_message returns.
on_message_return ==
  /\ pc = "loop"
  /\ i > Len(messages)
  /\ pc' = "returned"
  /\ UNCHANGED <<messages, i, stdout, log, exc, recordVars, companies>>

Next == on_message \/ handle_message \/ on_message_return

Spec == Init /\ [][Next]_vars

-----------------------------------------------------------------------------
(* A record and the calls made on it.                                      *)

\* TrainMovementsMessage(body): a body that fails the check leaves no record.
Construct ==
  /\ rec = PyNone
  /\ \E body \in RecordBodies :
       /\ op' = "__init__"
       /\ arg' = body
       /\ res' = __init__(body)
       /\ rec' = IF res'.exc = "none" THEN res'.val ELSE rec
  /\ UNCHANGED <<listenerVars, companies>>

\* Reading a property of the record.
Get ==
  /\ rec # PyNone
  /\ \E name \in SupportedFields \cup UnsupportedFields :
       /\ op' = "getattr"
       /\ arg' = name
       /\ res' = getattr(rec, name)
  /\ UNCHANGED <<rec, listenerVars, companies>>

Serialize ==
  /\ rec # PyNone
  /\ op' = "serialize"
  /\ arg' = PyNone
  /\ res' = serialize(rec)
  /\ UNCHANGED <<rec, listenerVars, companies>>

Str ==
  /\ rec # PyNone
  /\ op' = "__str__"
  /\ arg' = PyNone
  /\ res' = __str__(rec)
  /\ UNCHANGED <<rec, listenerVars, companies>>

\* The static decoder called on its own, before any record is built.
DecodeOperatingCompany ==
  /\ rec = PyNone
  /\ \E s \in Strings(MaxLen) :
       /\ op' = "_decode_operating_company"
       /\ arg' = s
       /\ res' = _decode_operating_company(s)
  /\ UNCHANGED <<rec, listenerVars, companies>>

RecordNext == Construct \/ Get \/ Serialize \/ Str \/ DecodeOperatingCompany

RecordSpec == Init /\ [][RecordNext]_vars

-----------------------------------------------------------------------------
(* Properties of the listener, checked under Spec.                         *)

\* The header carries the one recognised movement-report code.
ValidHeader(envelope) == envelope.header.msg_type = "0003"

\* The body builds a record and the record renders.
WellFormed(envelope) == __init__(envelope.body).exc = "none" /\ __str__([raw |-> envelope.body]).exc = "none"

Rendered(envelope) == __str__([raw |-> envelope.body]).val

\* The envelopes _handle_message has returned from.
Processed == IF pc = "idle" THEN 0 ELSE i - 1

\* The renderings of the valid-header envelopes among the first k, in arrival order.
RECURSIVE ExpectedOutput(_)
ExpectedOutput(k) ==
  IF k = 0 THEN <<>>
  ELSE IF ValidHeader(messages[k]) THEN Append(ExpectedOutput(k - 1), Rendered(messages[k]))
  ELSE ExpectedOutput(k - 1)

\* C1: in a batch whose valid-header envelopes are all well-formed, the output
\* is exactly the renderings of the valid-header envelopes handled so far, in
\* arrival order, nothing is printed for an invalid header, the batch is never
\* aborted, and on_message returns only after the last envelope.
C1_ValidEnvelopesRenderedInOrder ==
  (\A j \in DOMAIN messages : ValidHeader(messages[j]) => WellFormed(messages[j]))
    => /\ pc # "raised"
       /\ stdout = ExpectedOutput(Processed)
       /\ (pc = "returned" => Processed = Len(messages))

\* Three envelopes, the second with an invalid header: two records, the first and the third.
C1_Witness ==
  /\ pc = "returned"
  /\ Len(messages) = 3
  /\ ValidHeader(messages[1]) /\ ~ValidHeader(messages[2]) /\ ValidHeader(messages[3])
  /\ WellFormed(messages[1]) /\ WellFormed(messages[3])
  /\ messages[1].body # messages[3].body
  /\ stdout = <<Rendered(messages[1]), Rendered(messages[3])>>

\* Both codes of the body decode and the decoded values differ.
Mismatch(body) ==
  /\ division_code([raw |-> body]).exc = "none"
  /\ operating_company([raw |-> body]).exc = "none"
  /\ division_code([raw |-> body]).val # operating_company([raw |-> body]).val

\* C2: an envelope with a valid header whose decoded division code differs
\* from its decoded operating company is skipped and never aborts the batch:
\* on_message never ends on it with envelopes of the batch still unhandled.
C2_ConstructionFailureNeverAborts ==
  ~(pc = "raised" /\ ValidHeader(messages[i]) /\ Mismatch(messages[i].body) /\ i < Len(messages))

\* C3: a decode error raised while an accepted record is rendered never
\* aborts the batch: on_message never ends on it with envelopes of the batch
\* still unhandled.
C3_RenderErrorNeverAborts ==
  ~(pc = "raised" /\ ValidHeader(messages[i]) /\ __init__(messages[i].body).exc = "none" /\ __str__([raw |-> messages[i].body]).exc # "none" /\ i < Len(messages))

IsError(entry) == entry.level = "ERROR"

-----------------------------------------------------------------------------
(* Properties of the record and the decoders, checked under RecordSpec.    *)

\* C5: building a record from a body whose decoded division code differs from
\* its decoded operating company fails with the assertion error; building one
\* where the two are equal succeeds; every record that exists has them equal.
C5_ConstructionChecksCompany ==
  /\ op = "__init__" /\ division_code([raw |-> arg]).exc = "none" /\ operating_company([raw |-> arg]).exc = "none"
       => IF division_code([raw |-> arg]).val # operating_company([raw |-> arg]).val
          THEN res = Raise("AssertionError") /\ rec = PyNone
          ELSE res = Return([raw |-> arg]) /\ rec = [raw |-> arg]
  /\ rec # PyNone
       => /\ division_code(rec).exc = "none"
          /\ operating_company(rec).exc = "none"
          /\ division_code(rec).val = operating_company(rec).val

C5_Witness ==
  /\ op = "__init__"
  /\ {"toc_id", "division_code"} \subseteq DOMAIN arg
  /\ arg["toc_id"] = <<"8", "8">>
  /\ arg["division_code"] = <<"2", "0">>
  /\ res = Raise("AssertionError")

\* The wire timestamp is absent or a string of digits.
Decodes(timestamp) == timestamp = <<>> \/ int(timestamp).exc = "none"

\* C6: early_late_description is "[unknown]" when the actual timestamp is
\* absent, or the actual one decodes and the planned one is absent, whatever
\* the status field holds or lacks; with both present and d the actual minus
\* the planned time in minutes, it is "<d> mins late" for LATE,
\* "<-d> mins early" for EARLY and "on time" for ON TIME.
C6_EarlyLateDescription ==
  op = "getattr" /\ arg = "early_late_description" /\ Decodes(rec.raw["actual_timestamp"]) /\ (rec.raw["actual_timestamp"] = <<>> \/ Decodes(rec.raw["planned_timestamp"]))
    => IF rec.raw["actual_timestamp"] = <<>> \/ rec.raw["planned_timestamp"] = <<>>
       THEN res = Return(PyStr("[unknown]"))
       ELSE "variation_status" \in DOMAIN rec.raw
            => /\ rec.raw["variation_status"] = "LATE"
                    => res = Return(str_format("{} mins late", PyFloat(int(rec.raw["actual_timestamp"]).val - int(rec.raw["planned_timestamp"]).val, 60000)))
               /\ rec.raw["variation_status"] = "EARLY"
                    => res = Return(str_format("{} mins early", PyFloat(int(rec.raw["planned_timestamp"]).val - int(rec.raw["actual_timestamp"]).val, 60000)))
               /\ rec.raw["variation_status"] = "ON TIME"
                    => res = Return(PyStr("on time"))

\* Five minutes late.
C6_Witness ==
  /\ op = "getattr" /\ arg = "early_late_description"
  /\ "variation_status" \in DOMAIN rec.raw
  /\ rec.raw["variation_status"] = "LATE"
  /\ rec.raw["planned_timestamp"] = <<"6", "0", "0", "0", "0">>
  /\ rec.raw["actual_timestamp"] = <<"3", "6", "0", "0", "0", "0">>
  /\ res = Return(str_format("{} mins late", PyFloat(300000, 60000)))

\* C7: reading an unsupported field of a record always raises
\* NotImplementedError, whatever the raw body holds under the key, and leaves
\* the record as it was.
C7_UnsupportedFieldsRaise ==
  [][op' = "getattr" /\ arg' \in UnsupportedFields => res' = Raise("NotImplementedError") /\ rec' = rec]_vars

\* The key is null on the wire.
C7_Witness ==
  /\ op = "getattr" /\ arg = "train_file_address"
  /\ "train_file_address" \in DOMAIN rec.raw
  /\ rec.raw["train_file_address"] = JsonNull
  /\ res = Raise("NotImplementedError")

\* The exact-match table from wire string to variant.
EventTypeTable == [ARRIVAL |-> "arrival", DEPARTURE |-> "departure", DESTINATION |-> "destination"]

\* The raw key an event type accessor reads.
EventTypeKey(name) == IF name = "event_type" THEN "event_type" ELSE "planned_event_type"

\* C8: event_type and planned_event_type each return the variant the table
\* maps the raw wire string to, and raise for any other wire string.
C8_EventTypeAccessorsDecode ==
  op = "getattr" /\ arg \in {"event_type", "planned_event_type"} /\ EventTypeKey(arg) \in DOMAIN rec.raw
    => IF rec.raw[EventTypeKey(arg)] \in DOMAIN EventTypeTable
       THEN res = Return(PyEnum("EventType", EventTypeTable[rec.raw[EventTypeKey(arg)]]))
       ELSE res = Raise("KeyError")

\* The keys of a serialized record, in order.
Keys(odict) == [k \in DOMAIN odict.items |-> odict.items[k][1]]

\* C9, as claimed: the mapping opens with the event type.
C9_SerializeKeysAsClaimed ==
  op = "serialize" /\ res.exc = "none"
    => Keys(res.val) = <<"event_type", "status", "planned_datetime", "actual_datetime", "planned_timetable_datetime", "early_late_description", "location", "location_stanox", "operating_company", "is_correction">>

\* C9, amended: the keys of serialize() are always, in this order, planned
\* event type, status, planned, actual and timetable timestamps, early/late
\* description, location, location code, operating company, correction flag;
\* the first value is the planned event type of the record.
C9_SerializeKeysFixed ==
  op = "serialize" /\ res.exc = "none"
    => /\ Keys(res.val) = <<"planned_event_type", "status", "planned_datetime", "actual_datetime", "planned_timetable_datetime", "early_late_description", "location", "location_stanox", "operating_company", "is_correction">>
       /\ res.val.items[1][2] = EventType_get(rec.raw["planned_event_type"]).val

C9_Witness ==
  /\ op = "serialize" /\ res.exc = "none"
  /\ "event_type" \in DOMAIN rec.raw
  /\ rec.raw["event_type"] = "ARRIVAL"
  /\ rec.raw["planned_event_type"] = "DEPARTURE"
  /\ res.val.items[1] = <<"planned_event_type", PyEnum("EventType", "departure")>>

\* C10: _decode_operating_company returns None for "00" whatever the lookup
\* holds for 0, returns for any other string of digits what the lookup
\* returns for its value, and raises for a string that is not a number.
C10_DecodeOperatingCompany ==
  op = "_decode_operating_company"
    => /\ arg = <<"0", "0">> => res = Return(PyNone)
       /\ arg # <<"0", "0">> /\ int(arg).exc = "none" => res = Return(operating_companies_from_numeric_code(int(arg).val))
       /\ arg = <<"8", "8">> => res = Return([type |-> "Company", code |-> 88])
       /\ int(arg).exc # "none" => res.exc = "ValueError"

\* "00" with a lookup that knows a company 0.
C10_Witness ==
  /\ op = "_decode_operating_company"
  /\ arg = <<"0", "0">>
  /\ 0 \in companies
  /\ res = Return(PyNone)

====
